---------------------------- MODULE Spec2Model ----------------------------
(***************************************************************************)
(* Scan orchestration of the security dashboard backend:                   *)
(*   security_api/tasks.py   Celery tasks (execute_tool_scan, the per-tool *)
(*                           tasks, the two scheduler ticks)               *)
(*   security_api/views.py   start_scan / stop_scan / run_now /            *)
(*                           toggle_active                                 *)
(*   security_api/models.py  SecurityTool, ScanResult, ScanSchedule,       *)
(*                           Vulnerability                                 *)
(*   scripts/*.py            the stand-alone scanners (NmapScanner,        *)
(*                           ZAPScanner) and their normalizers             *)
(* Time is counted in hours.  A Python Optional is a sequence of length    *)
(* 0 (None) or 1.                                                          *)
(***************************************************************************)
EXTENDS Integers, Sequences, FiniteSets, Bags, TLC

VARIABLES
    tools,      \* SecurityTool rows, by name
    scans,      \* ScanResult rows, by id (1..Len)
    vulns,      \* Vulnerability rows (vuln_id is unique)
    alerts,     \* SecurityAlert rows, in creation order
    schedules,  \* mutable fields of the ScanSchedule rows, by id
    queue,      \* Celery broker: bag of task messages not yet picked up
    inflight,   \* bag of tool tasks / scanner scripts between start and end
    ticks,      \* the scheduler-tick task instances
    now         \* wall clock, in hours

vars == <<tools, scans, vulns, alerts, schedules, queue, inflight, ticks, now>>

---------------------------------------------------------------------------
(* Bounds of the model *)

MaxScans == 4       \* ScanResult rows ever created
MaxRuns == 2        \* runs of the stand-alone scanner scripts
MaxNow == 25        \* the clock stops advancing here
MaxItems == 2       \* findings in one tool output
HashMod == 2        \* range of the reduced string hash
MaxLevel == 15      \* highest rule level of a Wazuh alert
MaxCvss == 100      \* highest CVSS score, in tenths
MaxAlerts == 2      \* SecurityAlert rows the pull adapters create

---------------------------------------------------------------------------
(* Data *)

None == <<>>
Some(x) == <<x>>

\* models.py SecurityTool.TOOL_CHOICES: the SecurityTool rows of the model
ToolNames == {"nmap", "zap", "openvas", "trivy", "tshark", "wazuh"}

\* the tools the API requests of the model name: two with a task handler
\* (run_zap_scan is run_nmap_scan with another command line) and one
\* registered tool without a handler
ApiTools == {"nmap", "trivy", "openvas"}

Targets == {"t1", "t2"}

\* SecurityTool field defaults
NewTool == [status |-> "inactive", last_scan |-> None, scan_count |-> 0,
            error_message |-> ""]

\* the text of a ScanResult.raw_output
NoOutput == [kind |-> "empty", items |-> <<>>, text |-> ""]
Stdout(items) == [kind |-> "stdout", items |-> items, text |-> ""]
Garbage == [kind |-> "garbage", items |-> <<>>, text |-> ""]
\* text json.loads accepts but that is no report object ("[]", "null")
Misshapen == [kind |-> "misshapen", items |-> <<>>, text |-> ""]
ErrorText(t) == [kind |-> "error", items |-> <<>>, text |-> t]

\* ScanResult row; origin is a history field: the code place that created it
NewScan(tool, target, status, raw, origin, t) ==
    [tool |-> tool, target |-> target, status |-> status, raw_output |-> raw,
     vulnerabilities_found |-> 0, end_time |-> t, origin |-> origin]

BagAdd(b, x) == b (+) SetToBag({x})
BagRemove(b, x) == b (-) SetToBag({x})

\* work that can still create a ScanResult row
Pending == BagCardinality(queue) + BagCardinality(inflight)
Room(n) == Len(scans) + Pending + n <= MaxScans


---------------------------------------------------------------------------
(* Findings *)

\* tool-native identifiers and severity tokens a tool output may carry
VulnIds == {"CVE-1", "CVE-2"}
SevTokens == {"HIGH", "UNKNOWN"}

\* one entry of Results[].Vulnerabilities[] of a Trivy report
TrivyItems == [id : VulnIds, sev : SevTokens]

SeqsUpTo(S, n) == UNION {[1..k -> S] : k \in 0..n}

\* str.lower() on the severity tokens
Lower(tok) ==
    CASE tok = "CRITICAL" -> "critical"
      [] tok = "HIGH" -> "high"
      [] tok = "MEDIUM" -> "medium"
      [] tok = "LOW" -> "low"
      [] tok = "UNKNOWN" -> "unknown"
      [] OTHER -> tok

\* f"TRIVY-{vuln.get('VulnerabilityID')}"
TrivyKey(item) == <<"TRIVY", item.id>>

Keys(store) == {v.vuln_id : v \in store}

NewVuln(key, severity, asset, tool) ==
    [vuln_id |-> key, severity |-> severity, affected_asset |-> asset,
     tool |-> tool, status |-> "open"]

\* the loop of run_trivy_scan over the parsed report: Vulnerability.objects
\* .create per entry; a vuln_id that exists violates the unique constraint
\* and the IntegrityError leaves the loop (rows created so far stay)
\* the loop over a table without the unique constraint on vuln_id
RECURSIVE TrivyCreateAlways(_, _, _, _)
TrivyCreateAlways(store, items, asset, count) ==
    IF items = <<>> THEN [store |-> store, count |-> count, raised |-> FALSE]
    ELSE LET it == Head(items) IN
         TrivyCreateAlways(
            store \cup {NewVuln(TrivyKey(it), Lower(it.sev), asset, "trivy")},
            Tail(items), asset, count + 1)

RECURSIVE TrivyCreate(_, _, _, _)
TrivyCreate(store, items, asset, count) ==
    IF items = <<>> THEN [store |-> store, count |-> count, raised |-> FALSE]
    ELSE LET it == Head(items) IN
         IF TrivyKey(it) \in Keys(store)
         THEN [store |-> store, count |-> count, raised |-> TRUE]
         ELSE TrivyCreate(
                store \cup {NewVuln(TrivyKey(it), Lower(it.sev), asset, "trivy")},
                Tail(items), asset, count + 1)

---------------------------------------------------------------------------
(* Schedules: the immutable columns of the ScanSchedule rows *)

ScheduleDefs == <<
    [tool |-> "nmap", target |-> "t1", frequency |-> "hourly"],
    [tool |-> "trivy", target |-> "t1", frequency |-> "daily"],
    [tool |-> "openvas", target |-> "t2", frequency |-> "weekly"] >>

ScheduleIds == DOMAIN ScheduleDefs

NewSchedule == [is_active |-> TRUE, last_run |-> None, next_run |-> None]

Tickers == {"w1", "w2"}

IdleTick == [pc |-> "idle", fn |-> "", current_time |-> 0, rows |-> <<>>]

---------------------------------------------------------------------------
Init ==
    /\ tools = [n \in ToolNames |-> NewTool]
    /\ scans = <<>>
    /\ vulns = {}
    /\ alerts = <<>>
    /\ schedules = [s \in ScheduleIds |-> NewSchedule]
    /\ queue = EmptyBag
    /\ inflight = EmptyBag
    /\ ticks = [k \in Tickers |-> IdleTick]
    /\ now = 0

---------------------------------------------------------------------------
(* Task messages *)

ExecuteMsg(tool, target, id) ==
    [task |-> "execute_tool_scan", tool |-> tool, target |-> target, job |-> id]

\* job is a history field: the ScanResult whose execute_tool_scan sent the
\* message (the code passes only the target)
ToolMsg(task, target, id) ==
    [task |-> task, tool |-> "", target |-> target, job |-> id]

TaskTool(task) ==
    CASE task = "run_nmap_scan" -> "nmap"
      [] task = "run_zap_scan" -> "zap"
      [] task = "run_trivy_scan" -> "trivy"

\* the routing of execute_tool_scan; <<>> when no handler exists
Handler(tool_name) ==
    CASE tool_name = "nmap" -> <<"run_nmap_scan">>
      [] tool_name = "zap" -> <<"run_zap_scan">>
      [] tool_name = "trivy" -> <<"run_trivy_scan">>
      [] OTHER -> <<>>

---------------------------------------------------------------------------
(* views.py *)

\* SecurityToolViewSet.start_scan
StartScan(name, target) ==
    /\ target # "" => Room(2)
    /\ tools' = [tools EXCEPT ![name].status = "scanning"]
    /\ IF target = ""
       THEN UNCHANGED <<scans, queue>>
       ELSE /\ scans' = Append(scans,
                   NewScan(name, target, "queued", NoOutput, "start_scan", None))
            /\ queue' = BagAdd(queue, ExecuteMsg(name, target, Len(scans) + 1))
    /\ UNCHANGED <<vulns, alerts, schedules, inflight, ticks, now>>

\* SecurityToolViewSet.stop_scan
StopScan(name) ==
    /\ tools' = [tools EXCEPT ![name].status = "active"]
    /\ UNCHANGED <<scans, vulns, alerts, schedules, queue, inflight, ticks, now>>

\* ScanScheduleViewSet.run_now
RunNow(s) ==
    /\ Room(2)
    /\ LET d == ScheduleDefs[s] IN
       /\ scans' = Append(scans,
              NewScan(d.tool, d.target, "pending", NoOutput, "run_now", None))
       /\ queue' = BagAdd(queue, ExecuteMsg(d.tool, d.target, Len(scans) + 1))
    /\ UNCHANGED <<tools, vulns, alerts, schedules, inflight, ticks, now>>

\* ScanScheduleViewSet.toggle_active
ToggleActive(s) ==
    /\ schedules' = [schedules EXCEPT ![s].is_active = ~schedules[s].is_active]
    /\ UNCHANGED <<tools, scans, vulns, alerts, queue, inflight, ticks, now>>


---------------------------------------------------------------------------
(* tasks.py: execute_tool_scan *)

\* str(ValueError(f"Unsupported tool: {tool_name}"))
Unsupported == "Unsupported tool"

\* The try block: load both rows, mark the ScanResult running and the tool
\* scanning (two saves), then route to the tool's task.  For a tool without
\* a handler the ValueError is raised after both saves.
ExecuteToolScan(m) ==
    /\ m \in BagToSet(queue)
    /\ m.task = "execute_tool_scan"
    /\ scans' = [scans EXCEPT ![m.job].status = "running"]
    /\ tools' = [tools EXCEPT ![m.tool].status = "scanning"]
    /\ LET h == Handler(m.tool) IN
       IF h # <<>>
       THEN /\ queue' = BagAdd(BagRemove(queue, m), ToolMsg(h[1], m.target, m.job))
            /\ UNCHANGED inflight
       ELSE /\ queue' = BagRemove(queue, m)
            /\ inflight' = BagAdd(inflight,
                   [task |-> "execute_tool_scan", target |-> m.target,
                    job |-> m.job, tool |-> tools'[m.tool]])
    /\ UNCHANGED <<vulns, alerts, schedules, ticks, now>>

\* The except branch: the ScanResult is loaded again and saved as failed
\* with end_time and str(e); the tool row is not written.
ExecuteExcept(r) ==
    /\ r \in BagToSet(inflight)
    /\ r.task = "execute_tool_scan"
    /\ scans' = [scans EXCEPT ![r.job].status = "failed",
                              ![r.job].end_time = Some(now),
                              ![r.job].raw_output = ErrorText(Unsupported)]
    /\ inflight' = BagRemove(inflight, r)
    /\ UNCHANGED <<tools, vulns, alerts, schedules, queue, ticks, now>>

---------------------------------------------------------------------------
(* tasks.py: run_nmap_scan, run_zap_scan, run_trivy_scan *)

\* Lines before the try block: load the tool row, mark it scanning, save.
\* The task keeps its copy of the row until it ends.
ToolTaskStart(m) ==
    /\ m \in BagToSet(queue)
    /\ m.task # "execute_tool_scan"
    /\ LET name == TaskTool(m.task)
           copy == [tools[name] EXCEPT !.status = "scanning"]
       IN /\ tools' = [tools EXCEPT ![name] = copy]
          /\ inflight' = BagAdd(inflight,
                 [task |-> m.task, target |-> m.target, job |-> m.job,
                  tool |-> copy])
    /\ queue' = BagRemove(queue, m)
    /\ UNCHANGED <<scans, vulns, alerts, schedules, ticks, now>>

\* what subprocess.run can do: return with exit code 0, return with another
\* exit code (no check=True: no exception), raise OSError, raise
\* TimeoutExpired
ProcOutcomes == {"ok", "nonzero", "raise", "timeout"}

Stdouts ==
    {Stdout(items) : items \in SeqsUpTo(TrivyItems, MaxItems)}
       \cup {Garbage, Misshapen}

\* stdout of the external tool.  nmap and zap output is stored unparsed;
\* a Trivy report is a list of entries, or text json.loads rejects
StdoutsOf(task, outcome) ==
    IF task = "run_trivy_scan"
    THEN IF outcome = "ok" THEN Stdouts ELSE {Garbage}
    ELSE {Stdout(<<>>)}

\* str(e) of the exception subprocess.run raised
ProcError(outcome) ==
    IF outcome = "timeout" THEN "timed out" ELSE "process error"

\* the success tail without the timestamp
SucceededUntimed(copy, t) ==
    [copy EXCEPT !.status = "active", !.scan_count = copy.scan_count + 1]

\* the success tail shared by the three tasks: tool.status = 'active',
\* last_scan, scan_count += 1 on the task's copy
Succeeded(copy, t) ==
    [copy EXCEPT !.status = "active", !.last_scan = Some(t),
                 !.scan_count = copy.scan_count + 1]

\* the except branch: tool.status = 'error', error_message = str(e)
Failed(copy, msg) ==
    [copy EXCEPT !.status = "error", !.error_message = msg]

\* The try block and its except branch; tool.save() writes every column of
\* the task's copy.  In run_trivy_scan the ScanResult is created before the
\* report is parsed; only json.JSONDecodeError is caught at the parse, so
\* an IntegrityError of a create or the AttributeError of .get on a value
\* that is no dict reaches the outer except.
ToolTaskFinish(r, outcome, out) ==
    /\ r \in BagToSet(inflight)
    /\ r.task # "execute_tool_scan"
    /\ outcome \in ProcOutcomes
    /\ out \in StdoutsOf(r.task, outcome)
    /\ inflight' = BagRemove(inflight, r)
    /\ LET name == TaskTool(r.task) IN
       IF outcome \in {"raise", "timeout"}
       THEN /\ tools' = [tools EXCEPT ![name] = Failed(r.tool, ProcError(outcome))]
            /\ UNCHANGED <<scans, vulns>>
       ELSE LET row == NewScan(name, r.target, "completed", out, r.task, Some(now))
                parsed == r.task = "run_trivy_scan" /\ out.kind = "stdout"
                misshapen == r.task = "run_trivy_scan" /\ out.kind = "misshapen"
                res == IF parsed
                       THEN TrivyCreate(vulns, out.items, r.target, 0)
                       ELSE [store |-> vulns, count |-> 0, raised |-> misshapen]
            IN /\ vulns' = res.store
               /\ IF res.raised
                  THEN /\ scans' = Append(scans, row)
                       /\ tools' = [tools EXCEPT
                              ![name] = Failed(r.tool,
                                  IF misshapen THEN "AttributeError"
                                  ELSE "IntegrityError")]
                  ELSE /\ scans' = Append(scans,
                              [row EXCEPT !.vulnerabilities_found = res.count])
                       /\ tools' = [tools EXCEPT ![name] = Succeeded(r.tool, now)]
    /\ UNCHANGED <<alerts, schedules, queue, ticks, now>>

---------------------------------------------------------------------------
Next ==
    \/ \E n \in ApiTools, t \in Targets \cup {""} : StartScan(n, t)
    \/ \E n \in ApiTools : StopScan(n)
    \/ \E s \in ScheduleIds : RunNow(s)
    \/ \E m \in BagToSet(queue) : ExecuteToolScan(m)
    \/ \E r \in BagToSet(inflight) : ExecuteExcept(r)
    \/ \E m \in BagToSet(queue) : ToolTaskStart(m)
    \/ \E r \in BagToSet(inflight), o \in ProcOutcomes :
          \E out \in Stdouts : ToolTaskFinish(r, o, out)

Spec == Init /\ [][Next]_vars



---------------------------------------------------------------------------
(* tasks.py: trigger_scheduled_scans (daily) and trigger_hourly_scans *)

HoursPerDay == 24
SecondsPerHour == 3600

\* datetime.timedelta of d hours, normalised: .days and .seconds
TdDays(d) == d \div HoursPerDay
TdSeconds(d) == (d % HoursPerDay) * SecondsPerHour

\* the daily due test with the comparison off by one
DailyDueLate(current_time, last_run) ==
    \/ last_run = None
    \/ TdDays(current_time - last_run[1]) > 1

\* the two due tests, as written
DailyDue(current_time, last_run) ==
    \/ last_run = None
    \/ TdDays(current_time - last_run[1]) >= 1

HourlyDue(current_time, last_run) ==
    \/ last_run = None
    \/ TdSeconds(current_time - last_run[1]) >= 3600

\* the frequency each tick function filters on, its due test and the
\* timedelta it adds for next_run
TickFns == {"daily", "hourly"}
\* a tick that fires every schedule it loads
DueAlways(fn, current_time, last_run) == TRUE
Due(fn, current_time, last_run) ==
    IF fn = "daily" THEN DailyDue(current_time, last_run)
    ELSE HourlyDue(current_time, last_run)
\* both ticks adding a day
PeriodDay(fn) == HoursPerDay
\* timedelta(days=1) in the daily tick, timedelta(hours=1) in the hourly
Period(fn) == IF fn = "daily" THEN HoursPerDay ELSE 1

\* ScanSchedule.objects.filter(frequency=fn, is_active=True), as loaded
\* when the for loop starts: the rows by id, each with its last_run
RECURSIVE Rows(_, _)
Rows(fn, s) ==
    IF s > Len(ScheduleDefs) THEN <<>>
    ELSE IF ScheduleDefs[s].frequency = fn /\ schedules[s].is_active
         THEN <<[id |-> s, last_run |-> schedules[s].last_run]>> \o Rows(fn, s + 1)
         ELSE Rows(fn, s + 1)

\* a tick task starts: current_time = timezone.now() and the queryset
TickBegin(k, fn) ==
    /\ ticks[k].pc = "idle"
    /\ LET rows == Rows(fn, 1) IN
       /\ Room(2 * Len(rows))
       /\ ticks' = [ticks EXCEPT ![k] =
              IF rows = <<>> THEN IdleTick
              ELSE [pc |-> "loop", fn |-> fn, current_time |-> now,
                    rows |-> rows]]
    /\ UNCHANGED <<tools, scans, vulns, alerts, schedules, queue, inflight, now>>

\* one iteration of the for loop.  A due schedule gets a queued ScanResult
\* and an execute_tool_scan message; schedule.save() writes every column
\* of the loaded row (is_active as loaded, i.e. True).
TickIter(k) ==
    /\ ticks[k].pc = "loop"
    /\ LET t == ticks[k]
           row == Head(t.rows)
           d == ScheduleDefs[row.id]
           rest == Tail(t.rows)
       IN /\ ticks' = [ticks EXCEPT ![k] =
                 IF rest = <<>> THEN IdleTick ELSE [t EXCEPT !.rows = rest]]
          /\ IF Due(t.fn, t.current_time, row.last_run)
             THEN /\ scans' = Append(scans,
                        NewScan(d.tool, d.target, "queued", NoOutput, "tick", None))
                  /\ queue' = BagAdd(queue,
                        ExecuteMsg(d.tool, d.target, Len(scans) + 1))
                  /\ schedules' = [schedules EXCEPT ![row.id] =
                        [is_active |-> TRUE,
                         last_run |-> Some(t.current_time),
                         next_run |-> Some(t.current_time + Period(t.fn))]]
             ELSE UNCHANGED <<scans, queue, schedules>>
    /\ UNCHANGED <<tools, vulns, alerts, inflight, now>>

\* time passes; a tick loop is short against the clock's unit of one hour
ClockSteps == {1, HoursPerDay - 1, HoursPerDay}
Advance(d) ==
    /\ now + d <= MaxNow
    /\ \A k \in Tickers : ticks[k].pc = "idle"
    /\ now' = now + d
    /\ UNCHANGED <<tools, scans, vulns, alerts, schedules, queue, inflight, ticks>>

SchedNext ==
    \/ \E k \in Tickers, fn \in TickFns : TickBegin(k, fn)
    \/ \E k \in Tickers : TickIter(k)
    \/ \E d \in ClockSteps : Advance(d)
    \/ \E s \in ScheduleIds : ToggleActive(s)

SchedSpec == Init /\ [][SchedNext]_vars

\* Celery beat keeps sending both ticks and the workers run them to the end
FairSchedSpec ==
    /\ SchedSpec
    /\ \A fn \in TickFns : WF_vars(\E k \in Tickers : TickBegin(k, fn))
    /\ \A k \in Tickers : WF_vars(TickIter(k))

---------------------------------------------------------------------------
(* scripts/nmap_integration.py, scripts/zap_integration.py *)

\* what _parse_nmap_output reads from the XML: an open port with a service
\* version of the vulnerable list, or a CVE in a script output
NmapItems == {[kind |-> "port", id |-> "22"], [kind |-> "cve", id |-> "CVE-1"]}

\* f"NMAP-{ip_address}-{port_id}" and f"NMAP-{cve}-{target}"; the host
\* address of the report is the scanned target
NmapKey(item, target) ==
    IF item.kind = "port" THEN <<"NMAP", target, item.id>>
    ELSE <<"NMAP", item.id, target>>

NmapSeverity(item) == IF item.kind = "port" THEN "medium" ELSE "high"

\* Vulnerability.objects.get_or_create(vuln_id=key, defaults=...)
GetOrCreate(store, row) ==
    IF row.vuln_id \in Keys(store) THEN store ELSE store \cup {row}

\* _parse_nmap_output: get_or_create per finding, vuln_count += 1 after
\* each of them
RECURSIVE ParseNmap(_, _, _, _)
ParseNmap(store, items, target, count) ==
    IF items = <<>> THEN [store |-> store, count |-> count]
    ELSE LET it == Head(items)
             row == NewVuln(NmapKey(it, target), NmapSeverity(it), target, "nmap")
         IN ParseNmap(GetOrCreate(store, row), Tail(items), target, count + 1)

\* an entry of the alerts list of the ZAP API
ZapItems == [plugin : {"p1", "p2"}, alert : {"XSS"}, risk : {"2"}]
AlertNames == {"XSS"}

\* hash(target_url + alert_id) % 10000: str hashes are salted per process,
\* h is the process's hash of target_url + name, by alert name
ZapHashes == [AlertNames -> 0..(HashMod - 1)]
ZapKey(item, h) == <<"ZAP", item.plugin, h[item.alert]>>

\* severity_map.get(risk, 'low')
ZapSeverity(risk) ==
    CASE risk = "3" -> "critical"
      [] risk = "2" -> "high"
      [] risk = "1" -> "medium"
      [] OTHER -> "low"

\* _process_alerts: get_or_create per alert, counted when created
RECURSIVE ProcessAlerts(_, _, _, _, _)
ProcessAlerts(store, items, target, h, count) ==
    IF items = <<>> THEN [store |-> store, count |-> count]
    ELSE LET it == Head(items)
             row == NewVuln(ZapKey(it, h), ZapSeverity(it.risk), target, "zap")
             created == row.vuln_id \notin Keys(store)
         IN ProcessAlerts(GetOrCreate(store, row), Tail(items), target, h,
                          IF created THEN count + 1 ELSE count)

ScriptTool(script) ==
    CASE script = "NmapScanner" -> "nmap"
      [] script = "OpenVASScanner" -> "openvas"
      [] OTHER -> "zap"

ScriptRoom == Len(scans) + Pending < MaxRuns

\* the completion alert of a scanner script
ScanCompleteAlert(source, tool, target, found) ==
    [alert_type |-> "scan_complete", severity |-> "low", source |-> source,
     tool |-> tool, target |-> target, found |-> found]

\* scan_network / scan_website up to the try block: the scanner object's
\* copy of the tool row is marked scanning and saved
ScriptStart(script, target) ==
    /\ ScriptRoom
    /\ LET name == ScriptTool(script)
           copy == [tools[name] EXCEPT !.status = "scanning"]
       IN /\ tools' = [tools EXCEPT ![name] = copy]
          /\ inflight' = BagAdd(inflight,
                 [task |-> script, target |-> target, job |-> 0, tool |-> copy])
    /\ UNCHANGED <<scans, vulns, alerts, schedules, queue, ticks, now>>

NmapStdouts ==
    {Stdout(items) : items \in SeqsUpTo(NmapItems, MaxItems)} \cup {Garbage}

\* NmapScanner.scan_network, the try block and its handlers.  A non-zero
\* exit code raises; an XML parse error is caught inside the parser.
NmapScanFinish(r, outcome, out) ==
    /\ r \in BagToSet(inflight)
    /\ r.task = "NmapScanner"
    /\ outcome \in ProcOutcomes
    /\ out \in NmapStdouts
    /\ inflight' = BagRemove(inflight, r)
    /\ IF outcome # "ok"
       THEN /\ tools' = [tools EXCEPT !["nmap"] =
                   Failed(r.tool, IF outcome = "timeout" THEN "Scan timeout"
                                  ELSE ProcError(outcome))]
            /\ UNCHANGED <<scans, vulns, alerts>>
       ELSE LET res == IF out.kind = "stdout"
                       THEN ParseNmap(vulns, out.items, r.target, 0)
                       ELSE [store |-> vulns, count |-> 0]
                row == NewScan("nmap", r.target, "completed", out,
                               "NmapScanner", Some(now))
            IN /\ vulns' = res.store
               /\ scans' = Append(scans,
                      [row EXCEPT !.vulnerabilities_found = res.count])
               /\ tools' = [tools EXCEPT !["nmap"] = Succeeded(r.tool, now)]
               /\ alerts' = Append(alerts,
                      ScanCompleteAlert("nmap_scanner", "nmap", r.target, res.count))
    /\ UNCHANGED <<schedules, queue, ticks, now>>

ZapStdouts == {Stdout(items) : items \in SeqsUpTo(ZapItems, MaxItems)}

\* ZAPScanner.scan_website, the try block and its handler.  failed: a
\* request raised or a wait loop ran into its timeout.  The ScanResult is
\* created with vulnerabilities_found = len(alerts).
ZapScanFinish(r, failed, out, h) ==
    /\ r \in BagToSet(inflight)
    /\ r.task = "ZAPScanner"
    /\ out \in ZapStdouts
    /\ h \in ZapHashes
    /\ inflight' = BagRemove(inflight, r)
    /\ IF failed
       THEN /\ tools' = [tools EXCEPT !["zap"] = Failed(r.tool, "request error")]
            /\ UNCHANGED <<scans, vulns, alerts>>
       ELSE LET res == ProcessAlerts(vulns, out.items, r.target, h, 0)
                row == NewScan("zap", r.target, "completed", out,
                               "ZAPScanner", Some(now))
            IN /\ vulns' = res.store
               /\ scans' = Append(scans,
                      [row EXCEPT !.vulnerabilities_found = Len(out.items)])
               /\ tools' = [tools EXCEPT !["zap"] = Succeeded(r.tool, now)]
               /\ alerts' = Append(alerts,
                      ScanCompleteAlert("zap_scanner", "zap", r.target, res.count))
    /\ UNCHANGED <<schedules, queue, ticks, now>>

\* what the GMP server does during one OpenVASScanner.scan_target call
OpenVasServers == {"unreachable", "auth_rejected", "no_target_id", "good"}

\* the exception that ends the try block of scan_target.  Against a server
\* that connects, authenticates and creates the target, the arguments of
\* gmp.create_task are evaluated next: task_name is bound nowhere in the
\* module, so the call raises NameError before any task exists.
OpenVasRaised(server) ==
    CASE server = "unreachable" -> "Connection refused"
      [] server = "auth_rejected" -> "Authentication failed"
      [] server = "no_target_id" -> "Failed to create target"
      [] OTHER -> "name 'task_name' is not defined"

\* OpenVASScanner.scan_target, the try block and its handler: every path
\* leaves the with block by an exception, is caught by except Exception,
\* and sets the scanner's copy of the tool row to error; the statements
\* that create the ScanResult, the alert and the active tool row are
\* never executed.
OpenVasScanFinish(r, server) ==
    /\ r \in BagToSet(inflight)
    /\ r.task = "OpenVASScanner"
    /\ server \in OpenVasServers
    /\ inflight' = BagRemove(inflight, r)
    /\ tools' = [tools EXCEPT !["openvas"] = Failed(r.tool, OpenVasRaised(server))]
    /\ UNCHANGED <<scans, vulns, alerts, schedules, queue, ticks, now>>

ScriptNext ==
    \/ \E sc \in {"NmapScanner", "ZAPScanner", "OpenVASScanner"}, t \in Targets :
          ScriptStart(sc, t)
    \/ \E r \in BagToSet(inflight), sv \in OpenVasServers : OpenVasScanFinish(r, sv)
    \/ \E r \in BagToSet(inflight), o \in ProcOutcomes :
          \E out \in NmapStdouts : NmapScanFinish(r, o, out)
    \/ \E r \in BagToSet(inflight), f \in BOOLEAN :
          \E out \in ZapStdouts, h \in ZapHashes : ZapScanFinish(r, f, out, h)

ScriptSpec == Init /\ [][ScriptNext]_vars

---------------------------------------------------------------------------
(* Scan job lifecycle: claims C1, C2, C7 - C10 *)

Terminal == {"completed", "failed", "timed_out", "cancelled"}

\* a task message or a running task still works for ScanResult j
Busy(j) ==
    \/ \E m \in BagToSet(queue) : m.job = j
    \/ \E r \in BagToSet(inflight) : r.job = j

\* C1: when the execution of a ScanJob (execute_tool_scan and the tool task
\* it delegates to) ends, the pair (ScanJob.status, Tool.status) is
\* (completed, active), (failed, error) or (timed_out, error).
C1_PairAfterExecute ==
    [][\A j \in DOMAIN scans :
          (Busy(j) /\ ~Busy(j)') =>
             <<scans'[j].status, tools'[scans[j].tool].status>> \in
                {<<"completed", "active">>, <<"failed", "error">>,
                 <<"timed_out", "error">>}]_vars

\* C2: at most one ScanJob is running for the same (Tool, target) pair.
C2_MutualExclusion ==
    \A i, j \in DOMAIN scans :
       (i # j /\ scans[i].status = "running" /\ scans[j].status = "running")
          => ~(scans[i].tool = scans[j].tool /\ scans[i].target = scans[j].target)

\* C7: when the external process of a tool task raises, times out or exits
\* with a non-zero code, the ScanJob being executed becomes failed with the
\* error text as raw output and the Tool becomes error.
C7_AdapterErrorFails ==
    [][\A r \in BagToSet(inflight), o \in {"nonzero", "raise", "timeout"} :
          \A out \in Stdouts :
             ToolTaskFinish(r, o, out) =>
                /\ scans'[r.job].status = "failed"
                /\ scans'[r.job].raw_output.kind = "error"
                /\ tools'[TaskTool(r.task)].status = "error"]_vars

\* C8: executing a job of a tool that has no handler ends with the ScanJob
\* failed and the Tool in error (not scanning).
C8_StartFailure ==
    [][\A r \in BagToSet(inflight) :
          ExecuteExcept(r) =>
             /\ scans'[r.job].status = "failed"
             /\ tools'[scans[r.job].tool].status = "error"]_vars

\* C9: no ScanJob stays queued or running for ever: once no task message
\* and no running task is left for a ScanJob, it is in a terminal status.
C9_ReachesTerminal ==
    \A j \in DOMAIN scans : ~Busy(j) => scans[j].status \in Terminal

JobEdges ==
    {<<"queued", "running">>, <<"running", "completed">>,
     <<"running", "failed">>, <<"running", "timed_out">>,
     <<"queued", "cancelled">>, <<"running", "cancelled">>}

\* C10: every change of a ScanJob's status is an edge of the lifecycle
\* state machine (so nothing leaves a terminal status).
C10_StatusEdges ==
    [][\A j \in DOMAIN scans :
          scans'[j].status # scans[j].status =>
             <<scans[j].status, scans'[j].status>> \in JobEdges]_vars


---------------------------------------------------------------------------
(* Scheduler: claims C4 - C6 *)

\* the step is an iteration of tick k that fires the schedule it looks at
Fires(k) == TickIter(k) /\ Len(scans') = Len(scans) + 1

Elapsed(k) == ticks[k].current_time - Head(ticks[k].rows).last_run[1]

\* C4: the hourly tick fires an hourly schedule exactly when lastRun is
\* null or at least one hour has elapsed, whatever the elapsed duration.
C4_HourlyDueIffElapsed ==
    [][\A k \in Tickers :
          (TickIter(k) /\ ticks[k].fn = "hourly") =>
             (Fires(k) <=> (Head(ticks[k].rows).last_run = None
                            \/ Elapsed(k) >= 1))]_vars

C6_WeeklyMonthlyFired ==
    \A s \in ScheduleIds :
       ScheduleDefs[s].frequency \in {"weekly", "monthly"} =>
          ((<>[](Room(2) /\ \A x \in ScheduleIds : schedules[x].is_active))
              => <>(schedules[s].last_run # None))


---------------------------------------------------------------------------
(* Normalizers: claim C3 *)

\* C3: a scanner run that stores a raw output already stored by a completed
\* run of the same tool on the same target persists no new Finding and
\* records findingsCount 0.
C3_DedupIdempotent ==
    [][Len(scans') = Len(scans) + 1 =>
          LET new == scans'[Len(scans')] IN
          (\E i \in DOMAIN scans :
              /\ scans[i].status = "completed"
              /\ scans[i].tool = new.tool
              /\ scans[i].target = new.target
              /\ scans[i].raw_output = new.raw_output)
             => (vulns' = vulns /\ new.vulnerabilities_found = 0)]_vars

---------------------------------------------------------------------------
(* Job records and notifications: claims C11 - C14 *)

\* the ScanResult rows a step creates
Created == {j \in DOMAIN scans' : j \notin DOMAIN scans}

\* C11: every ScanJob record is created in status queued, whoever creates
\* it (tick, run_now, start_scan, tool task).
C11_CreatedQueued ==
    [][\A j \in Created : scans'[j].status = "queued"]_vars

\* C12: the ScanJob record a dispatch created is the one that carries the
\* outcome of the run: a successful tool task leaves it completed with the
\* run's raw output and findings count, and creates no second record.
C12_OneRecordPerRun ==
    [][\A r \in BagToSet(inflight) : \A out \in Stdouts :
          (ToolTaskFinish(r, "ok", out) /\ tools'[TaskTool(r.task)].status = "active")
             => /\ Created = {}
                /\ scans'[r.job].status = "completed"
                /\ scans'[r.job].raw_output = out
                /\ scans'[r.job].vulnerabilities_found = Len(out.items)]_vars

\* the ScanResult rows that are in a terminal status after the step and
\* were not before it
BecameTerminal ==
    {j \in DOMAIN scans' :
        /\ scans'[j].status \in Terminal
        /\ j \in DOMAIN scans => scans[j].status \notin Terminal}

\* C13: every step that takes a ScanJob into a terminal status emits
\* exactly one notification, for the job's tool.
C13_OneNotification ==
    [][\A j \in BecameTerminal :
          /\ Len(alerts') = Len(alerts) + 1
          /\ alerts'[Len(alerts')].tool = scans'[j].tool]_vars

\* C14: when the external process of a tool task runs into its timeout,
\* the ScanJob being executed becomes timed_out and the Tool error.
C14_TimeoutMarksTimedOut ==
    [][\A r \in BagToSet(inflight) : \A out \in Stdouts :
          ToolTaskFinish(r, "timeout", out) =>
             /\ scans'[r.job].status = "timed_out"
             /\ tools'[TaskTool(r.task)].status = "error"]_vars

---------------------------------------------------------------------------
(* Concurrency: claims C15, C16 *)

\* C15: writes to a Tool row are serialized: every tool task that ends in
\* success leaves the Tool's scanCount exactly one higher than it was, so N
\* concurrent successful jobs add N.
C15_ScanCountSerialized ==
    [][\A r \in BagToSet(inflight) : \A out \in Stdouts :
          (ToolTaskFinish(r, "ok", out) /\ tools'[TaskTool(r.task)].status = "active")
             => tools'[TaskTool(r.task)].scan_count =
                   tools[TaskTool(r.task)].scan_count + 1]_vars

\* C16: two overlapping invocations of a tick do not both fire a schedule:
\* whenever an invocation fires a schedule, the schedule is still due by
\* the lastRun stored at that moment.
C16_NoOverlapFiring ==
    [][\A k \in Tickers :
          Fires(k) =>
             LET stored == schedules[Head(ticks[k].rows).id].last_run IN
             \/ stored = None
             \/ ticks[k].current_time - stored[1] >= Period(ticks[k].fn)]_vars

---------------------------------------------------------------------------
(* Ticks together with the execution of the jobs they dispatch: claim C17 *)

\* the tool outputs of these runs: an empty report, or text that is no JSON
RunStdouts == {Stdout(<<>>), Garbage}

\* the ticks run about a day apart
RunClockSteps == {HoursPerDay - 1, HoursPerDay}

\* one invocation of a tick at a time
RunTickers == {"w1"}

RunNext ==
    \/ \E k \in RunTickers, fn \in TickFns : TickBegin(k, fn)
    \/ \E k \in RunTickers : TickIter(k)
    \/ \E d \in RunClockSteps : Advance(d)
    \/ \E s \in ScheduleIds : RunNow(s)
    \/ \E m \in BagToSet(queue) : ExecuteToolScan(m)
    \/ \E r \in BagToSet(inflight) : ExecuteExcept(r)
    \/ \E m \in BagToSet(queue) : ToolTaskStart(m)
    \/ \E r \in BagToSet(inflight), o \in ProcOutcomes :
          \E out \in RunStdouts : ToolTaskFinish(r, o, out)

RunSpec == Init /\ [][RunNext]_vars

\* the fixed duration of a frequency, in hours
FrequencyDuration(frequency) ==
    CASE frequency = "hourly" -> 1
      [] frequency = "daily" -> HoursPerDay
      [] frequency = "weekly" -> 7 * HoursPerDay
      [] frequency = "monthly" -> 30 * HoursPerDay

\* C17: a tick that fires a schedule at time now sets lastRun = now and
\* nextRun = now + the frequency's duration in that same step, and no step
\* of job execution (or any step other than a tick iteration) changes
\* lastRun or nextRun.
C17_LastRunOnDispatch ==
    [][/\ \A k \in Tickers :
             Fires(k) =>
                LET s == Head(ticks[k].rows).id IN
                /\ ticks[k].current_time = now
                /\ schedules'[s].last_run = Some(now)
                /\ schedules'[s].next_run =
                      Some(now + FrequencyDuration(ScheduleDefs[s].frequency))
       /\ (~ \E k \in Tickers : TickIter(k)) => schedules' = schedules]_vars

\* a schedule was fired and the job it dispatched has been executed to the
\* end of its tool task, after the clock moved on
C17_Witness ==
    /\ \E s \in ScheduleIds :
          /\ schedules[s].last_run # None
          /\ schedules[s].last_run[1] < now
    /\ \E j \in DOMAIN scans : scans[j].origin = "tick" /\ scans[j].status = "running"
    /\ \E j \in DOMAIN scans : scans[j].origin = "run_nmap_scan"

---------------------------------------------------------------------------
(* Manual trigger and the Tool state machine: claims C18 - C20 *)

\* C18: run_now on a schedule, due or not, creates exactly one ScanJob in
\* status queued for the schedule's tool and target, dispatches it, and
\* leaves the schedule's lastRun, nextRun and isActive unchanged.
C18_RunNowFrame ==
    [][\A s \in ScheduleIds :
          RunNow(s) =>
             /\ Created = {Len(scans) + 1}
             /\ scans'[Len(scans) + 1].status = "queued"
             /\ scans'[Len(scans) + 1].tool = ScheduleDefs[s].tool
             /\ scans'[Len(scans) + 1].target = ScheduleDefs[s].target
             /\ BagCardinality(queue') = BagCardinality(queue) + 1
             /\ schedules' = schedules]_vars

\* C19: every step in which a Tool's status becomes active increments its
\* scanCount by one and sets its lastScanTime.
C19_ActiveMeansSuccess ==
    [][\A n \in ToolNames :
          (tools[n].status # "active" /\ tools'[n].status = "active") =>
             /\ tools'[n].scan_count = tools[n].scan_count + 1
             /\ tools'[n].last_scan = Some(now)]_vars

ToolEdges ==
    {<<"inactive", "scanning">>, <<"scanning", "active">>,
     <<"scanning", "error">>, <<"active", "scanning">>,
     <<"error", "scanning">>}

\* C20: every change of a Tool's status is an edge of the per-Tool state
\* machine: active and error are entered from scanning only, and inactive
\* is never entered again.
C20_ToolEdges ==
    [][\A n \in ToolNames :
          tools'[n].status # tools[n].status =>
             <<tools[n].status, tools'[n].status>> \in ToolEdges]_vars

---------------------------------------------------------------------------
(* Findings store: claims C21 - C24, C27, C30 *)

\* C21: no two persisted Findings have the same dedup key (vuln_id),
\* whatever tasks discovered them and in whatever order.
C21_UniqueKey ==
    \A v, w \in vulns : v.vuln_id = w.vuln_id => v = w

\* a Trivy task has re-discovered a key that was in the store
C21_Witness ==
    /\ tools["trivy"].error_message = "IntegrityError"
    /\ \E v \in vulns : v.tool = "trivy"

\* C22: the findingsCount a run records equals the number of Findings the
\* run newly created (the keys in the store after it that were not there
\* before).
C22_CountIsNewlyCreated ==
    [][\A j \in Created :
          scans'[j].status = "completed" =>
             scans'[j].vulnerabilities_found =
                Cardinality(Keys(vulns') \ Keys(vulns))]_vars

\* C23: a candidate whose key exists is dropped and the run goes on: after
\* a Trivy run whose report was parsed, every stored Finding is unchanged
\* and every key of the report is in the store.
C23_DropAndContinue ==
    [][\A r \in BagToSet(inflight) : \A out \in Stdouts :
          (ToolTaskFinish(r, "ok", out) /\ r.task = "run_trivy_scan"
             /\ out.kind = "stdout")
             => /\ vulns \subseteq vulns'
                /\ \A i \in DOMAIN out.items :
                      TrivyKey(out.items[i]) \in Keys(vulns')]_vars

\* C24: the dedup key is a function of (tool family, tool-native
\* identifier, target): two Findings of one tool with the same native
\* identifier and asset have the same key, and Findings of different tools
\* have different keys.
C24_KeyDeterministic ==
    \A v, w \in vulns :
       /\ (v.tool = w.tool /\ v.vuln_id[2] = w.vuln_id[2]
             /\ v.affected_asset = w.affected_asset /\ v.tool = "zap")
            => v.vuln_id = w.vuln_id
       /\ v.tool # w.tool => v.vuln_id # w.vuln_id

Severities == {"critical", "high", "medium", "low", "info"}

\* C27: every persisted Finding has a severity of the enumeration.
C27_SeverityInEnum ==
    \A v \in vulns : v.severity \in Severities

\* C30: when the output of a run cannot be parsed into findings, the record
\* of the run is completed with findingsCount 0 and the raw output as it
\* was, and the Tool ends active.
C30_ParseFailureCompletes ==
    [][\A r \in BagToSet(inflight) : \A out \in Stdouts :
          (ToolTaskFinish(r, "ok", out) /\ r.task = "run_trivy_scan"
             /\ out.kind \in {"garbage", "misshapen"})
             => /\ Created = {Len(scans) + 1}
                /\ scans'[Len(scans) + 1].status = "completed"
                /\ scans'[Len(scans) + 1].vulnerabilities_found = 0
                /\ scans'[Len(scans) + 1].raw_output = out
                /\ tools'["trivy"].status = "active"]_vars

---------------------------------------------------------------------------
(* scripts/wazuh_integration.py *)

\* WazuhClient._map_severity with every threshold exclusive
MapSeverityAbove(level) ==
    IF level > 12 THEN "critical"
    ELSE IF level > 9 THEN "high"
    ELSE IF level > 6 THEN "medium"
    ELSE "low"

\* WazuhClient._map_severity
MapSeverity(level) ==
    IF level >= 12 THEN "critical"
    ELSE IF level >= 9 THEN "high"
    ELSE IF level >= 6 THEN "medium"
    ELSE "low"

\* WazuhClient._map_alert_type; groups is the set of the lower-cased names
MapAlertType(groups) ==
    IF groups \cap {"intrusion_detection", "ids", "attack"} # {} THEN "intrusion"
    ELSE IF groups \cap {"malware", "virus", "trojan"} # {} THEN "malware"
    ELSE IF groups \cap {"vulnerability", "cve"} # {} THEN "vulnerability"
    ELSE IF groups \cap {"policy", "pci_dss", "gdpr", "hipaa"} # {}
         THEN "policy_violation"
    ELSE IF groups \cap {"anomaly", "suspicious"} # {} THEN "anomaly"
    ELSE "intrusion"

\* WazuhClient._cvss_to_severity; a score is None or Some(tenths)
CvssToSeverity(cvss) ==
    IF cvss = None THEN "medium"
    ELSE IF cvss[1] >= 90 THEN "critical"
    ELSE IF cvss[1] >= 70 THEN "high"
    ELSE IF cvss[1] >= 40 THEN "medium"
    ELSE "low"

\* Python's "a or b" on optional numbers: None and 0.0 are falsy
Truthy(x) == x # None /\ x[1] # 0
PyOr(a, b) == IF Truthy(a) THEN a ELSE b

\* an entry of the vulnerability list of an agent
Scores == {None} \cup {Some(x) : x \in 0..MaxCvss}
WazuhReports ==
    [cve : VulnIds, agent : {"001", "002"}, cvss2 : Scores,
     cvss3 : {None, Some(0)}]

\* f"WAZUH-{cve_id}-{agent_id}"
WazuhKey(rep) == <<"WAZUH", rep.cve, rep.agent>>

\* the row sync_vulnerabilities passes to get_or_create
WazuhVuln(rep) ==
    NewVuln(WazuhKey(rep), CvssToSeverity(PyOr(rep.cvss2, rep.cvss3)),
            rep.agent, "wazuh")

\* WazuhClient.sync_vulnerabilities: get_or_create per reported entry
RECURSIVE SyncVulns(_, _)
SyncVulns(store, reps) ==
    IF reps = <<>> THEN store
    ELSE SyncVulns(GetOrCreate(store, WazuhVuln(Head(reps))), Tail(reps))

SyncVulnerabilities(reps) ==
    /\ vulns' = SyncVulns(vulns, reps)
    /\ vulns' # vulns
    /\ UNCHANGED <<tools, scans, alerts, schedules, queue, inflight, ticks, now>>

EventIds == {"e1", "e2"}

\* the groups of a rule, lower-cased
GroupSets == {{"ids"}, {"pci_dss", "syslog"}, {"syslog"}}

WazuhAlert(id, level, groups) ==
    [alert_type |-> MapAlertType(groups), severity |-> MapSeverity(level),
     source |-> "agent", tool |-> "wazuh", target |-> "", found |-> 0,
     wazuh_id |-> id, rule_level |-> level]

\* SecurityAlert.objects.filter(details__wazuh_id=wazuh_id).exists()
Exists(id) ==
    \E i \in DOMAIN alerts : alerts[i].tool = "wazuh" /\ alerts[i].wazuh_id = id

Pulls == {r \in BagToSet(inflight) : r.task = "sync_alerts"}

\* the alerts the pulls under way may still create
RECURSIVE SumRest(_)
SumRest(S) ==
    IF S = {} THEN 0
    ELSE LET r == CHOOSE x \in S : TRUE
         IN Len(r.rest) * CopiesIn(r, inflight) + SumRest(S \ {r})

\* WazuhClient.sync_alerts up to the loop: tool scanning, the alerts are
\* fetched (ids: the id of each); an empty list ends the pull, tool active
SyncAlertsStart(ids) ==
    /\ tools["wazuh"].scan_count + BagCardinality(inflight) < MaxRuns
    /\ Len(alerts) + SumRest(Pulls) + Len(ids) <= MaxAlerts
    /\ LET copy == [tools["wazuh"] EXCEPT !.status = "scanning"] IN
       IF ids = <<>>
       THEN /\ tools' = [tools EXCEPT !["wazuh"] = [copy EXCEPT !.status = "active"]]
            /\ UNCHANGED inflight
       ELSE /\ tools' = [tools EXCEPT !["wazuh"] = copy]
            /\ inflight' = BagAdd(inflight,
                   [task |-> "sync_alerts", target |-> "", job |-> 0,
                    tool |-> copy, rest |-> ids, existing |-> None])
    /\ UNCHANGED <<scans, vulns, alerts, schedules, queue, ticks, now>>

\* the loop body up to the query: does an alert with this wazuh_id exist
SyncAlertsCheck(r) ==
    /\ r \in Pulls
    /\ r.existing = None
    /\ inflight' = BagAdd(BagRemove(inflight, r),
           [r EXCEPT !.existing = Some(Exists(Head(r.rest)))])
    /\ UNCHANGED <<tools, scans, vulns, alerts, schedules, queue, ticks, now>>

\* the rest of the loop body: create the alert unless one existed at the
\* query; after the last alert the tool is saved active, scan_count += 1
SyncAlertsCreate(r, level, groups) ==
    /\ r \in Pulls
    /\ r.existing # None
    /\ alerts' = IF r.existing[1] THEN alerts
                 ELSE Append(alerts, WazuhAlert(Head(r.rest), level, groups))
    /\ IF Tail(r.rest) = <<>>
       THEN /\ inflight' = BagRemove(inflight, r)
            /\ tools' = [tools EXCEPT !["wazuh"] = Succeeded(r.tool, now)]
       ELSE /\ inflight' = BagAdd(BagRemove(inflight, r),
                   [r EXCEPT !.rest = Tail(r.rest), !.existing = None])
            /\ UNCHANGED tools
    /\ UNCHANGED <<scans, vulns, schedules, queue, ticks, now>>

---------------------------------------------------------------------------
(* scripts/wireshark_integration.py *)

\* WiresharkAnalyzer.capture_traffic with _analyze_capture and
\* _detect_anomalies: an alert per detected pattern, its type as written
CaptureTraffic(ok, port_scan, ddos) ==
    /\ tools["tshark"].scan_count < MaxRuns
    /\ Len(alerts) + SumRest(Pulls) + 2 <= MaxAlerts
    /\ LET copy == [tools["tshark"] EXCEPT !.status = "scanning"]
           a1 == IF port_scan
                 THEN <<[alert_type |-> "port_scan", severity |-> "high",
                         source |-> "src", tool |-> "tshark", target |-> "",
                         found |-> 0]>>
                 ELSE <<>>
           a2 == IF ddos
                 THEN <<[alert_type |-> "anomaly", severity |-> "critical",
                         source |-> "src", tool |-> "tshark", target |-> "",
                         found |-> 0]>>
                 ELSE <<>>
       IN IF ok
          THEN /\ alerts' = alerts \o a1 \o a2
               /\ tools' = [tools EXCEPT !["tshark"] = Succeeded(copy, now)]
          ELSE /\ alerts' = alerts
               /\ tools' = [tools EXCEPT !["tshark"] = Failed(copy, "process error")]
    /\ UNCHANGED <<scans, vulns, schedules, queue, inflight, ticks, now>>

PullNext ==
    \/ \E ids \in SeqsUpTo(EventIds, 2) : SyncAlertsStart(ids)
    \/ \E r \in BagToSet(inflight) : SyncAlertsCheck(r)
    \/ \E r \in BagToSet(inflight), level \in 0..MaxLevel, groups \in GroupSets :
          SyncAlertsCreate(r, level, groups)
    \/ \E ok, port_scan, ddos \in BOOLEAN : CaptureTraffic(ok, port_scan, ddos)

PullSpec == Init /\ [][PullNext]_vars

\* the vulnerability sync of the Wazuh client, one reported entry a call
VulnSyncNext == \E rep \in WazuhReports : SyncVulnerabilities(<<rep>>)

VulnSyncSpec == Init /\ [][VulnSyncNext]_vars

---------------------------------------------------------------------------
(* Severity mappings and alerts: claims C25, C26, C28, C29 *)

\* the severity of a CVSS score, in tenths; None is a missing score
CvssExpected(score) ==
    IF score = None THEN "medium"
    ELSE IF score[1] >= 90 THEN "critical"
    ELSE IF score[1] >= 70 /\ score[1] < 90 THEN "high"
    ELSE IF score[1] >= 40 /\ score[1] < 70 THEN "medium"
    ELSE "low"

\* the score of a reported entry that carries at most one score
ReportScore(rep) == IF rep.cvss2 # None THEN rep.cvss2 ELSE rep.cvss3

\* C25: a vulnerability the Wazuh sync persists gets the severity of its
\* CVSS score: critical from 9.0, high from 7.0, medium from 4.0, low
\* below, and medium when the entry carries no score.
C25_CvssSeverity ==
    [][\A rep \in WazuhReports :
          (/\ SyncVulnerabilities(<<rep>>)
           /\ WazuhKey(rep) \notin Keys(vulns)
           /\ (rep.cvss2 = None \/ rep.cvss3 = None))
             => \A v \in vulns' :
                   v.vuln_id = WazuhKey(rep) =>
                      v.severity = CvssExpected(ReportScore(rep))]_vars

\* the severity of an integer alert level
LevelExpected(level) ==
    IF level >= 12 THEN "critical"
    ELSE IF 9 <= level /\ level < 12 THEN "high"
    ELSE IF 6 <= level /\ level < 9 THEN "medium"
    ELSE "low"

\* C26: every alert pulled from Wazuh has the severity of its rule level:
\* critical from 12, high from 9, medium from 6, low below.
C26_LevelSeverity ==
    \A i \in DOMAIN alerts :
       alerts[i].tool = "wazuh" =>
          alerts[i].severity = LevelExpected(alerts[i].rule_level)

\* alerts at the two sides of a threshold have been pulled
C26_Witness ==
    /\ \E i \in DOMAIN alerts : alerts[i].tool = "wazuh" /\ alerts[i].rule_level = 12
    /\ \E i \in DOMAIN alerts : alerts[i].tool = "wazuh" /\ alerts[i].rule_level = 11

AlertTypes ==
    {"intrusion", "malware", "vulnerability", "anomaly", "policy_violation",
     "scan_complete"}

\* C28: every Alert has a type of the closed enumeration.
C28_AlertTypeInEnum ==
    \A i \in DOMAIN alerts : alerts[i].alert_type \in AlertTypes

\* C29: the store holds one Alert per reported event id: no two alerts
\* pulled from Wazuh have the same event id, whatever the interleaving of
\* the pulls.
C29_OneAlertPerEvent ==
    \A i, j \in DOMAIN alerts :
       (i # j /\ alerts[i].tool = "wazuh" /\ alerts[j].tool = "wazuh")
          => alerts[i].wazuh_id # alerts[j].wazuh_id

---------------------------------------------------------------------------
(* Retries and disabled schedules: claims C31, C32 *)

\* the execute_tool_scan messages in the broker
ExecuteMsgs(q) == {m \in BagToSet(q) : m.task = "execute_tool_scan"}

\* the messages and running tasks of ScanResult j
WorkFor(j) ==
    BagCardinality([m \in {x \in BagToSet(queue) : x.job = j} |-> CopiesIn(m, queue)])
    + BagCardinality([r \in {x \in BagToSet(inflight) : x.job = j} |->
                         CopiesIn(r, inflight)])

C32_InactiveNeverFired ==
    [][/\ \A k \in Tickers :
             Fires(k) => schedules[Head(ticks[k].rows).id].is_active
       /\ \A s \in ScheduleIds :
             (~schedules[s].is_active /\ ~ToggleActive(s))
                => schedules'[s] = schedules[s]]_vars

---------------------------------------------------------------------------
(* Cancel, stuck tools, rejected requests: claims C33 - C35, C37, C39 *)

\* C33: after stop_scan on a Tool no ScanJob of that Tool is queued or
\* running (they are cancelled), and the end of a run that was stopped
\* changes neither rows of jobs nor the Tool.
C33_StopCancels ==
    [][\A n \in ApiTools :
          StopScan(n) =>
             \A j \in DOMAIN scans' :
                scans'[j].tool = n => scans'[j].status \notin {"queued", "running"}]_vars

\* a task message or a running task works for Tool n
InFlightFor(n) ==
    \/ \E m \in BagToSet(queue) :
          \/ m.task = "execute_tool_scan" /\ m.tool = n
          \/ m.task # "execute_tool_scan" /\ TaskTool(m.task) = n
    \/ \E r \in BagToSet(inflight) :
          \/ r.task = "execute_tool_scan" /\ scans[r.job].tool = n
          \/ r.task # "execute_tool_scan" /\ TaskTool(r.task) = n

\* C34: a Tool is never left in scanning with no job in flight for it (from
\* such a state nothing would take it to active or error).
C34_ScanningHasJob ==
    \A n \in ToolNames : tools[n].status = "scanning" => InFlightFor(n)

\* C35: a start_scan request with an empty target changes nothing.
C35_EmptyTargetRejected ==
    [][\A n \in ApiTools :
          StartScan(n, "") => (tools' = tools /\ scans' = scans /\ queue' = queue)]_vars

\* C37: dedup keys separate assets: after a Trivy run on a target that
\* reported one vulnerability, the store holds a Finding of that identifier
\* for that target, also when the identifier is stored for another target.
C37_KeysSeparateAssets ==
    [][\A r \in BagToSet(inflight) : \A out \in Stdouts :
          (ToolTaskFinish(r, "ok", out) /\ r.task = "run_trivy_scan"
             /\ out.kind = "stdout" /\ Len(out.items) = 1)
             => \A i \in DOMAIN out.items :
                   \E v \in vulns' :
                      /\ v.tool = "trivy"
                      /\ v.vuln_id[2] = out.items[i].id
                      /\ v.affected_asset = r.target]_vars

\* C38: a run of OpenVASScanner.scan_target against a server that connects,
\* authenticates and creates the target ends with one new completed
\* ScanResult and the tool active with its scan count one higher.
C38_OpenVasSuccess ==
    [][\A r \in BagToSet(inflight) :
          OpenVasScanFinish(r, "good")
             => /\ Len(scans') = Len(scans) + 1
                /\ scans'[Len(scans')].status = "completed"
                /\ tools'["openvas"].status = "active"
                /\ tools'["openvas"].scan_count = r.tool.scan_count + 1]_vars

\* C39: a Tool's scanCount is greater than 0 exactly when its lastScanTime
\* is set.
C39_CountIffLastScan ==
    \A n \in ToolNames : tools[n].scan_count > 0 <=> tools[n].last_scan # None

\* a Tool that has succeeded was written again by a run that ended in error
C39_Witness ==
    \E n \in ToolNames :
       /\ tools[n].scan_count > 0
       /\ tools[n].status = "error"

---------------------------------------------------------------------------
(* WazuhClient._make_request: claim C36 *)

\* frames of _make_request the interpreter's stack holds before the next
\* recursive call raises RecursionError
MaxDepth == 3

Clients == {"c1", "c2"}

\* self.token of a client: None before the first authentication
Tokens == {None, Some("jwt")}

\* what the server does to POST /security/user/authenticate: 200 with a
\* token, 200 without one, another status code, or no answer
AuthAnswers == {"token", "no_token", "rejected", "exception"}

\* what the server does to the request itself: a status code, or no answer
Answers == {"200", "401", "500", "exception"}

\* the calls of _make_request that have not returned to their caller
Requests == {r \in BagToSet(inflight) : r.task = "_make_request"}

\* a method of a client calls self._make_request(endpoint): the client holds
\* the token of its earlier calls and the tool row loaded in __init__
MakeRequestCall(c, token) ==
    /\ c \in Clients
    /\ token \in Tokens
    /\ \A r \in Requests : r.client # c
    /\ inflight' = BagAdd(inflight,
           [task |-> "_make_request", client |-> c, pc |-> "enter",
            token |-> token, depth |-> 0, result |-> "",
            tool |-> tools["wazuh"]])
    /\ UNCHANGED <<tools, scans, vulns, alerts, schedules, queue, ticks, now>>

\* the head of _make_request: without a token it calls authenticate(),
\* which stores the token of a 200 answer and returns True, returns False on
\* another status, and on a RequestException sets the tool row to error,
\* saves it and returns False; False makes _make_request return None
MakeRequestEnter(r, answer) ==
    /\ r \in Requests
    /\ r.pc = "enter"
    /\ answer \in AuthAnswers
    /\ IF r.token # None
       THEN /\ inflight' = BagAdd(BagRemove(inflight, r), [r EXCEPT !.pc = "send"])
            /\ UNCHANGED tools
       ELSE CASE answer = "token" ->
                   /\ inflight' = BagAdd(BagRemove(inflight, r),
                          [r EXCEPT !.pc = "send", !.token = Some("jwt")])
                   /\ UNCHANGED tools
              [] answer = "no_token" ->
                   /\ inflight' = BagAdd(BagRemove(inflight, r),
                          [r EXCEPT !.pc = "send"])
                   /\ UNCHANGED tools
              [] answer = "rejected" ->
                   /\ inflight' = BagAdd(BagRemove(inflight, r),
                          [r EXCEPT !.pc = "done", !.result = "None"])
                   /\ UNCHANGED tools
              [] OTHER ->
                   /\ inflight' = BagAdd(BagRemove(inflight, r),
                          [r EXCEPT !.pc = "done", !.result = "None",
                                    !.tool = Failed(r.tool, "ConnectionError")])
                   /\ tools' = [tools EXCEPT !["wazuh"] =
                                  Failed(r.tool, "ConnectionError")]
    /\ UNCHANGED <<scans, vulns, alerts, schedules, queue, ticks, now>>

\* the try block of _make_request: one HTTP exchange.  200 returns the
\* body; 401 clears the token and calls _make_request again, one frame
\* deeper, with no count of the attempts: the call that does not fit on the
\* stack raises RecursionError, which the except clause
\* (RequestException) does not catch; another status or a
\* RequestException returns None
MakeRequestSend(r, answer) ==
    /\ r \in Requests
    /\ r.pc = "send"
    /\ answer \in Answers
    /\ inflight' = BagAdd(BagRemove(inflight, r),
           CASE answer = "200" -> [r EXCEPT !.pc = "done", !.result = "body"]
             [] answer = "401" ->
                  IF r.depth + 1 < MaxDepth
                  THEN [r EXCEPT !.pc = "enter", !.token = None,
                                 !.depth = r.depth + 1]
                  ELSE [r EXCEPT !.pc = "done", !.token = None,
                                 !.result = "RecursionError"]
             [] OTHER -> [r EXCEPT !.pc = "done", !.result = "None"])
    /\ UNCHANGED <<tools, scans, vulns, alerts, schedules, queue, ticks, now>>

\* the caller takes the result (or the exception) of the outermost call
MakeRequestReturn(r) ==
    /\ r \in Requests
    /\ r.pc = "done"
    /\ inflight' = BagRemove(inflight, r)
    /\ UNCHANGED <<tools, scans, vulns, alerts, schedules, queue, ticks, now>>

RequestNext ==
    \/ \E c \in Clients, token \in Tokens : MakeRequestCall(c, token)
    \/ \E r \in Requests, a \in AuthAnswers : MakeRequestEnter(r, a)
    \/ \E r \in Requests, a \in Answers : MakeRequestSend(r, a)
    \/ \E r \in Requests : MakeRequestReturn(r)

RequestSpec == Init /\ [][RequestNext]_vars

\* C36: _make_request ends, for every behaviour of the server, by returning
\* a response body or None: a call that is over has one of these two
\* results.
C36_RequestReturns ==
    \A r \in Requests : r.pc = "done" => r.result \in {"body", "None"}

===========================================================================
